---- MODULE Spec2Model ----
(***************************************************************************)
(* A model of migrate.py, the Bitbucket -> GitHub issue migration script.  *)
(*                                                                         *)
(* Strings the code inspects character by character (issue bodies) are     *)
(* sequences of one-character strings; strings the code only passes along  *)
(* (names, titles) are TLA+ strings.  Python's None is the value None, a    *)
(* dict is a function whose DOMAIN is its set of keys, a raised exception   *)
(* is the outcome Raise(<name>).  Bitbucket and GitHub are black boxes:     *)
(* Bitbucket answers from the script in bb, and any request to either may   *)
(* fail.  Texts are ASCII, so the encode/decode calls change nothing.       *)
(* The def of auth_basic_opener lacks its colon (line 316); the functions   *)
(* are modelled as they are written otherwise.                              *)
(***************************************************************************)
EXTENDS Integers, Sequences, FiniteSets, TLC

VARIABLES
    pc,          \* position of the running code
    options,     \* argparse namespace (read_arguments)
    bb,          \* the Bitbucket side: what its API answers
    calls,       \* every request issued so far, source and target, in order
    github,      \* the GitHub repository: labels, issues, comments created
    stdout,      \* what the script printed
    milestones,  \* __main__ local
    components,  \* __main__ local
    issues,      \* __main__ local (result of get_issues)
    start_id,    \* get_issues local: offset of the next page
    gi_issues,   \* get_issues local: the list accumulated so far
    queue,       \* __main__: the rest of sorted(issues) still to handle
    issue,       \* __main__: loop variable of the for loop
    comments,    \* __main__: result of get_comments for the current issue
    labels_todo, \* setup_labels: labels still to create
    new_issue,   \* push_issue local: number GitHub gave the new issue
    comments_todo, \* push_issue: comments still to create
    exc,         \* the uncaught exception that ended the run, if any
    arg,         \* argument of the formatter under call
    result,      \* value returned (or exception raised) by the formatter
    cb_src,      \* clean_body: unicode(body).splitlines()
    cb_i,        \* clean_body: number of lines consumed by the for loop
    lines,       \* clean_body local
    in_block     \* clean_body local

vars == <<pc, options, bb, calls, github, stdout, milestones, components,
          issues, start_id, gi_issues, queue, issue, comments, labels_todo,
          new_issue, comments_todo, exc, arg, result, cb_src, cb_i, lines, in_block>>

runVars == <<bb, calls, github, stdout, milestones, components,
             issues, start_id, gi_issues, queue, issue, comments, labels_todo,
             new_issue, comments_todo, exc>>

cbVars == <<cb_src, cb_i, lines, in_block>>

None == "None"

\* None where a dict is expected
NoneDict == [k \in {"None"} |-> None]

\* the outcome of a call: a returned value or a raised exception
Return(v) == [raise |-> None, value |-> v]

Raise(e) == [raise |-> e, value |-> <<>>]

\* Python truth of a string or None
Truthy(v) == v \notin {None, ""}

-----------------------------------------------------------------------------
(* Python string primitives, on sequences of characters.                   *)

NL == "\n"

OPEN == <<"{", "{", "{">>

CLOSE == <<"}", "}", "}">>

INDENT == <<" ", " ", " ", " ">>

\* the inline-code marker, U+0060 (the TLA+ lexer takes no such character in a string)
BACKTICK == <<"bq">>

\* str.startswith
StartsWith(s, p) == Len(s) >= Len(p) /\ SubSeq(s, 1, Len(p)) = p

\* str.find, 1-based; 0 when p does not occur in s
Find(s, p) ==
    LET hits == {i \in 1..(Len(s) - Len(p) + 1) : SubSeq(s, i, i + Len(p) - 1) = p}
    IN  IF hits = {} THEN 0 ELSE CHOOSE i \in hits : \A j \in hits : i <= j

\* the `in` operator on strings
Contains(s, p) == Find(s, p) # 0

\* str.partition: <<before, part, after>> around the first occurrence
Partition(s, p) ==
    LET i == Find(s, p)
    IN  IF i = 0 THEN <<s, <<>>, <<>>>>
        ELSE <<SubSeq(s, 1, i - 1), p, SubSeq(s, i + Len(p), Len(s))>>

RECURSIVE Replace(_, _, _)
\* str.replace: every non-overlapping occurrence, left to right
Replace(s, p, r) ==
    LET i == Find(s, p)
    IN  IF i = 0 THEN s
        ELSE SubSeq(s, 1, i - 1) \o r \o Replace(SubSeq(s, i + Len(p), Len(s)), p, r)

RECURSIVE SplitLines(_)
\* str.splitlines: no line for the empty piece after a final newline
SplitLines(s) ==
    IF s = <<>> THEN <<>>
    ELSE LET i == Find(s, <<NL>>)
         IN  IF i = 0 THEN <<s>>
             ELSE <<SubSeq(s, 1, i - 1)>> \o SplitLines(SubSeq(s, i + 1, Len(s)))

RECURSIVE JoinNL(_)
\* "\n".join
JoinNL(ls) ==
    IF ls = <<>> THEN <<>>
    ELSE IF Len(ls) = 1 THEN ls[1]
    ELSE ls[1] \o <<NL>> \o JoinNL(Tail(ls))

\* None where a string of characters is expected
NoneStr == <<"None">>

\* unicode(body): None prints as the four characters of its name
Unicode(body) == IF body = NoneStr THEN <<"N", "o", "n", "e">> ELSE body

-----------------------------------------------------------------------------
(* clean_body: one iteration of its for loop, as a function of the locals. *)

\* a variant of MarkerLines that appends nothing for the open marker
MarkerLines_NoOpenLine(line) ==
    IF Contains(line, CLOSE) THEN <<INDENT \o Partition(line, CLOSE)[1]>> ELSE <<>>

\* the lines appended while handling a line that starts with a marker
MarkerLines(line) ==
    (IF Contains(line, OPEN) THEN <<INDENT \o Partition(line, OPEN)[3]>> ELSE <<>>)
    \o (IF Contains(line, CLOSE) THEN <<INDENT \o Partition(line, CLOSE)[1]>> ELSE <<>>)

\* in_block after handling a line that starts with a marker
MarkerFlag(line, flag) ==
    IF Contains(line, CLOSE) THEN FALSE
    ELSE IF Contains(line, OPEN) THEN TRUE
    ELSE flag

\* a variant of IsDelimiter that looks for the markers anywhere in the line
IsDelimiter_Anywhere(line) == Contains(line, OPEN) \/ Contains(line, CLOSE)

\* the test of line 136
IsDelimiter(line) == StartsWith(line, OPEN) \/ StartsWith(line, CLOSE)

\* the body of the for loop: st = [lines, in_block]
clean_line(st, line) ==
    IF IsDelimiter(line)
    THEN [lines |-> st.lines \o MarkerLines(line),
          in_block |-> MarkerFlag(line, st.in_block)]
    ELSE IF st.in_block
    THEN [lines |-> Append(st.lines, INDENT \o line), in_block |-> TRUE]
    ELSE [lines |-> Append(st.lines, Replace(Replace(line, OPEN, BACKTICK), CLOSE, BACKTICK)),
          in_block |-> FALSE]

RECURSIVE clean_fold(_, _)
clean_fold(st, src) ==
    IF src = <<>> THEN st ELSE clean_fold(clean_line(st, Head(src)), Tail(src))

\* clean_body as one call
clean_body(body) ==
    JoinNL(clean_fold([lines |-> <<>>, in_block |-> FALSE], SplitLines(Unicode(body))).lines)

-----------------------------------------------------------------------------
(* Formatters.  A formatted text is the sequence of the pieces that         *)
(* str.format or str.join puts together.                                     *)

format_user(author_info) ==
    IF author_info = NoneDict \/ DOMAIN author_info = {} THEN Return(<<"Anonymous">>)
    ELSE IF "first_name" \notin DOMAIN author_info THEN Raise("KeyError")
    ELSE IF Truthy(author_info["first_name"]) /\ "last_name" \notin DOMAIN author_info
    THEN Raise("KeyError")
    ELSE IF Truthy(author_info["first_name"]) /\ Truthy(author_info["last_name"])
    THEN Return(<<author_info["first_name"], " ", author_info["last_name"]>>)
    ELSE IF "username" \in DOMAIN author_info
    THEN Return(<<"[", author_info["username"], "](http://bitbucket.org/",
                  author_info["username"], ")">>)
    ELSE Return(NoneStr)

format_name(iss) ==
    IF "reported_by" \in DOMAIN iss THEN format_user(iss["reported_by"])
    ELSE Return(<<"Anonymous">>)

\* str() of the store_true flag
StrBool(b) == IF b THEN "True" ELSE "False"

SEPARATOR == "----------------------------------------"

\* the text format_body returns, by the pieces of its template
format_body(opts, iss) ==
    LET name == format_name(iss)
    IN  IF name.raise # None THEN name
        ELSE Return([content |-> clean_body(iss["content"]),
                     separator |-> SEPARATOR,
                     bitbucket |-> <<"https://bitbucket.org/",
                                     StrBool(opts.bitbucket_username), "/",
                                     opts.bitbucket_repo, "/issue/",
                                     ToString(iss["local_id"])>>,
                     reported_by |-> name.value,
                     created_at |-> iss["created_on"]])

\* comment['user'] is what format_user returned: None has no encode
format_comment(comment) ==
    IF comment.user = NoneStr THEN Raise("AttributeError")
    ELSE Return([body |-> comment.body, separator |-> SEPARATOR, user |-> comment.user])

-----------------------------------------------------------------------------
(* Bounded sequences.                                                      *)

BSeq(S, n) == UNION {[1..k -> S] : k \in 0..n}

\* the variables of the migration run, while a formatter alone is under call
RunIdle ==
    /\ bb = NoneDict /\ calls = <<>> /\ github = NoneDict /\ stdout = <<>>
    /\ milestones = <<>> /\ components = <<>> /\ issues = <<>> /\ start_id = 0
    /\ gi_issues = <<>> /\ queue = <<>> /\ issue = NoneDict /\ comments = <<>>
    /\ labels_todo = <<>> /\ new_issue = 0 /\ comments_todo = <<>> /\ exc = None

CleanIdle == cb_src = <<>> /\ cb_i = 0 /\ lines = <<>> /\ in_block = FALSE

-----------------------------------------------------------------------------
(* clean_body called on its own, one loop iteration per step.              *)

MaxLines == 4

LineVocab ==
    { OPEN, CLOSE,
      <<"c", "o", "d", "e">>,
      <<"a">> \o CLOSE,
      <<"a">> \o OPEN \o <<"b">>,
      OPEN \o <<"c">> \o CLOSE,
      OPEN \o <<"c">> }

\* "before\n{{{\ncode\n}}}\nafter"
ExampleBody ==
    JoinNL(<< <<"b", "e", "f", "o", "r", "e">>, OPEN, <<"c", "o", "d", "e">>, CLOSE,
              <<"a", "f", "t", "e", "r">> >>)

Bodies == {JoinNL(ls) : ls \in BSeq(LineVocab, MaxLines)} \cup {ExampleBody, NoneStr}

InitClean ==
    /\ pc = "clean_body"
    /\ arg \in Bodies
    /\ cb_src = SplitLines(Unicode(arg))
    /\ cb_i = 0
    /\ lines = <<>>
    /\ in_block = FALSE
    /\ result = NoneStr
    /\ options = None
    /\ RunIdle

clean_body_line ==
    /\ pc = "clean_body"
    /\ cb_i < Len(cb_src)
    /\ LET st == clean_line([lines |-> lines, in_block |-> in_block], cb_src[cb_i + 1])
       IN  /\ lines' = st.lines
           /\ in_block' = st.in_block
    /\ cb_i' = cb_i + 1
    /\ UNCHANGED <<pc, arg, result, cb_src, options>>
    /\ UNCHANGED runVars

clean_body_return ==
    /\ pc = "clean_body"
    /\ cb_i = Len(cb_src)
    /\ result' = JoinNL(lines)
    /\ pc' = "returned"
    /\ UNCHANGED <<arg, cb_src, cb_i, lines, in_block, options>>
    /\ UNCHANGED runVars

NextClean == clean_body_line \/ clean_body_return

SpecClean == InitClean /\ [][NextClean]_vars

-----------------------------------------------------------------------------
(* format_user and format_body called on their own.                        *)

NameVals == {"", "ada", "lovelace"}

AuthorKeys == {"first_name", "last_name", "username"}

\* author records with any of the three keys present or absent
AuthorDicts == UNION {[D -> NameVals] : D \in SUBSET AuthorKeys}

AuthorInfos == AuthorDicts \cup {NoneDict}

MaxLocalId == 2

FormatContents == {<<"t", "e", "x", "t">>, ExampleBody, NoneStr}

\* issue records as the source serves them, with and without a reporter
FormatIssues ==
    [local_id : 1..MaxLocalId, content : FormatContents, created_on : {"2012-01-01 10:00:00"}]
    \cup [local_id : 1..MaxLocalId, content : FormatContents,
          created_on : {"2012-01-01 10:00:00"},
          reported_by : {NoneDict, [first_name |-> "ada", last_name |-> "lovelace", username |-> "ada"],
                         [first_name |-> "", last_name |-> "", username |-> "ada"],
                         [username |-> "ada"]}]

\* the namespace read_arguments returns: -u is a store_true flag
FormatOptions ==
    [bitbucket_accountname : {"acme", "other"}, bitbucket_repo : {"widgets"},
     github_username : {"me"}, github_repo : {"me/widgets"},
     dry_run : {FALSE}, start : {0}, bitbucket_username : BOOLEAN]

InitFormat ==
    /\ options \in FormatOptions
    /\ \/ pc = "format_user" /\ arg \in AuthorInfos
       \/ pc = "format_body" /\ arg \in FormatIssues
    /\ result = Return(NoneStr)
    /\ CleanIdle
    /\ RunIdle

call_format_user ==
    /\ pc = "format_user"
    /\ result' = format_user(arg)
    /\ pc' = "format_user_returned"
    /\ UNCHANGED <<arg, options>>
    /\ UNCHANGED cbVars
    /\ UNCHANGED runVars

call_format_body ==
    /\ pc = "format_body"
    /\ result' = format_body(options, arg)
    /\ pc' = "format_body_returned"
    /\ UNCHANGED <<arg, options>>
    /\ UNCHANGED cbVars
    /\ UNCHANGED runVars

NextFormat == call_format_user \/ call_format_body

SpecFormat == InitFormat /\ [][NextFormat]_vars

-----------------------------------------------------------------------------
(* The migration run: __main__ and the functions it calls.                 *)

\* sorted(): the stable sort of s, where leq[j][i] says that the key of
\* s[j] is at most the key of s[i].  Element j comes before element i when
\* its key is smaller, or equal and j is earlier in s.
Sorted(s, leq) ==
    LET Before(j, i) == \/ ~leq[i][j]
                        \/ (leq[j][i] /\ j < i)
        rank(i) == Cardinality({j \in 1..Len(s) : Before(j, i)}) + 1
    IN  [k \in 1..Len(s) |-> s[CHOOSE i \in 1..Len(s) : rank(i) = k]]

\* the order of Python strings of equal length, here two digits
StrLeq(a, b) == a[1] < b[1] \/ (a[1] = b[1] /\ a[2] <= b[2])

\* a variant of SortIssues that keeps the fetch order
SortIssues_FetchOrder(iss) == iss

\* sorted(issues, key=lambda issue: issue['local_id'])
SortIssues(iss) ==
    Sorted(iss, [j \in 1..Len(iss) |-> [i \in 1..Len(iss) |->
                    iss[j]["local_id"] <= iss[i]["local_id"]]])

\* a variant of SortComments that keeps the delivery order
SortComments_DeliveryOrder(cs) == cs

\* sorted(result, key=lambda comment: comment["utc_created_on"])
SortComments(cs) ==
    Sorted(cs, [j \in 1..Len(cs) |-> [i \in 1..Len(cs) |->
                   StrLeq(cs[j]["utc_created_on"], cs[i]["utc_created_on"])]])

\* the loop of get_comments over the ordered comments: the list built, or
\* the exception format_user raised on the way
RECURSIVE map_comments(_)
map_comments(ordered) ==
    IF ordered = <<>> THEN Return(<<>>)
    ELSE LET comment == Head(ordered)
             body == IF Truthy(comment["content"]) THEN comment["content"] ELSE ""
             rest == map_comments(Tail(ordered))
         IN  IF body = "" THEN rest
             ELSE LET user == format_user(comment["author_info"])
                  IN  IF user.raise # None THEN user
                      ELSE IF rest.raise # None THEN rest
                      ELSE Return(<<[user |-> user.value,
                                     created_at |-> comment["utc_created_on"],
                                     body |-> body,
                                     number |-> comment["comment_id"]]>> \o rest.value)

\* get_comments, given the decoded response
get_comments(response) == map_comments(SortComments(response))

\* a variant of NextOffset that advances by one per page
NextOffset_ByOne(offset, page) == offset + 1

\* start_id += len(result['issues'])
NextOffset(offset, page) == offset + Len(page)

\* [m["name"] for m in result]
Names(res) == [k \in 1..Len(res) |-> res[k]["name"]]

\* the labels setup_labels creates, in order
LabelList(ms, cs) ==
    <<[name |-> "import", color |-> "888888"]>>
    \o [k \in 1..Len(ms) |-> [name |-> ms[k], color |-> "cccccc"]]
    \o [k \in 1..Len(cs) |-> [name |-> cs[k], color |-> "357ebd"]]

\* dict.get(key, None)
Get(d, key) == IF key \in DOMAIN d THEN d[key] ELSE None

\* filter(bool, ["import", milestone, component])
IssueLabels(iss) ==
    SelectSeq(<<"import", Get(iss["metadata"], "milestone"), Get(iss["metadata"], "component")>>,
              Truthy)

\* a variant of ShouldClose that also closes the other terminal statuses
ShouldClose_Terminal(status) == status \in {"resolved", "wontfix", "invalid", "duplicate"}

\* the test of line 261
ShouldClose(status) == status = "resolved"

\* one request, as the log keeps it.  id: the source identifier the request
\* is about (the offset, for a page of issues); number: the target issue
\* number; name: a label name; cid: a source comment number.
Call(svc, op, id, number, name, cid, ok) ==
    [svc |-> svc, op |-> op, id |-> id, number |-> number, name |-> name,
     cid |-> cid, ok |-> ok]

\* a variant of Abort in which the exception is caught and the run goes on
Abort_Swallowed(call, e) ==
    /\ calls' = Append(calls, call)
    /\ exc' = e
    /\ UNCHANGED pc

\* a call that failed: the exception goes up to the top level and the
\* process ends
Abort(call, e) ==
    /\ calls' = Append(calls, call)
    /\ pc' = "aborted"
    /\ exc' = e

\* an exception raised by the script's own code
AbortLocal(e) ==
    /\ pc' = "aborted"
    /\ exc' = e

RunInit(optset, sources, pc0) ==
    /\ options \in optset
    /\ bb \in sources
    /\ pc = pc0
    /\ calls = <<>>
    /\ github = [labels |-> <<>>, issues |-> <<>>]
    /\ stdout = <<>>
    /\ milestones = <<>> /\ components = <<>> /\ issues = <<>>
    /\ start_id = options.start
    /\ gi_issues = <<>> /\ queue = <<>> /\ issue = NoneDict /\ comments = <<>>
    /\ labels_todo = <<>> /\ new_issue = 0 /\ comments_todo = <<>> /\ exc = None
    /\ arg = NoneDict /\ result = Return(NoneStr)
    /\ CleanIdle

fmtVars == <<arg, result, cb_src, cb_i, lines, in_block>>

call_get_milestones ==
    /\ pc = "get_milestones"
    /\ \E ok \in BOOLEAN :
          LET call == Call("bb", "milestones", 0, 0, "", 0, ok)
          IN  IF ok
              THEN /\ calls' = Append(calls, call)
                   /\ milestones' = Names(bb.milestones)
                   /\ pc' = "get_components"
                   /\ UNCHANGED exc
              ELSE Abort(call, "HTTPError") /\ UNCHANGED milestones
    /\ UNCHANGED <<options, bb, github, stdout, components, issues, start_id,
                   gi_issues, queue, issue, comments, labels_todo, new_issue,
                   comments_todo>>
    /\ UNCHANGED fmtVars

call_get_components ==
    /\ pc = "get_components"
    /\ \E ok \in BOOLEAN :
          LET call == Call("bb", "components", 0, 0, "", 0, ok)
          IN  IF ok
              THEN /\ calls' = Append(calls, call)
                   /\ components' = Names(bb.components)
                   /\ pc' = "get_issues"
                   /\ UNCHANGED exc
              ELSE Abort(call, "HTTPError") /\ UNCHANGED components
    /\ UNCHANGED <<options, bb, github, stdout, milestones, issues, start_id,
                   gi_issues, queue, issue, comments, labels_todo, new_issue,
                   comments_todo>>
    /\ UNCHANGED fmtVars

\* the page the source serves next: its script, then empty pages
NextPage == IF bb.served < Len(bb.pages) THEN bb.pages[bb.served + 1] ELSE <<>>

\* one iteration of the while loop of get_issues; on the empty page the
\* function returns and __main__ goes on to setup_labels
get_issues_page ==
    /\ pc = "get_issues"
    /\ \E ok \in BOOLEAN :
          LET call == Call("bb", "issues", start_id, 0, "", 0, ok)
              page == NextPage
          IN  IF ~ok
              THEN /\ Abort(call, "HTTPError")
                   /\ UNCHANGED <<bb, issues, start_id, gi_issues, labels_todo>>
              ELSE /\ calls' = Append(calls, call)
                   /\ bb' = [bb EXCEPT !.served = @ + 1]
                   /\ UNCHANGED exc
                   /\ IF page = <<>>
                      THEN /\ issues' = gi_issues
                           /\ labels_todo' = LabelList(milestones, components)
                           /\ pc' = "setup_labels"
                           /\ UNCHANGED <<start_id, gi_issues>>
                      ELSE /\ gi_issues' = gi_issues \o page
                           /\ start_id' = NextOffset(start_id, page)
                           /\ UNCHANGED <<pc, issues, labels_todo>>
    /\ UNCHANGED <<options, github, stdout, milestones, components, queue, issue,
                   comments, new_issue, comments_todo>>
    /\ UNCHANGED fmtVars

\* one iteration of the for loop of setup_labels
create_label ==
    /\ pc = "setup_labels"
    /\ labels_todo # <<>>
    /\ \E ok \in BOOLEAN :
          LET label == Head(labels_todo)
              call == Call("gh", "create_label", 0, 0, label.name, 0, ok)
          IN  IF ok
              THEN /\ calls' = Append(calls, call)
                   /\ github' = [github EXCEPT !.labels = Append(@, label)]
                   /\ labels_todo' = Tail(labels_todo)
                   /\ UNCHANGED <<pc, exc>>
              ELSE Abort(call, "HTTPError") /\ UNCHANGED <<github, labels_todo>>
    /\ UNCHANGED <<options, bb, stdout, milestones, components, issues, start_id,
                   gi_issues, queue, issue, comments, new_issue, comments_todo>>
    /\ UNCHANGED fmtVars

\* setup_labels returns; the for loop of __main__ starts over sorted(issues)
setup_labels_return ==
    /\ pc = "setup_labels"
    /\ labels_todo = <<>>
    /\ queue' = SortIssues(issues)
    /\ pc' = "for_issue"
    /\ UNCHANGED <<options, bb, calls, github, stdout, milestones, components,
                   issues, start_id, gi_issues, issue, comments, labels_todo,
                   new_issue, comments_todo, exc>>
    /\ UNCHANGED fmtVars

\* the for statement: the next issue, or the end of the script
for_issue ==
    /\ pc = "for_issue"
    /\ IF queue = <<>>
       THEN pc' = "done" /\ UNCHANGED <<queue, issue>>
       ELSE /\ issue' = Head(queue)
            /\ queue' = Tail(queue)
            /\ pc' = "get_comments"
    /\ UNCHANGED <<options, bb, calls, github, stdout, milestones, components,
                   issues, start_id, gi_issues, comments, labels_todo,
                   new_issue, comments_todo, exc>>
    /\ UNCHANGED fmtVars

call_get_comments ==
    /\ pc = "get_comments"
    /\ \E ok \in BOOLEAN :
          LET call == Call("bb", "comments", issue["local_id"], 0, "", 0, ok)
              got == get_comments(bb.comments[issue["local_id"]])
          IN  IF ~ok
              THEN Abort(call, "HTTPError") /\ UNCHANGED comments
              ELSE /\ calls' = Append(calls, call)
                   /\ IF got.raise # None
                      THEN AbortLocal(got.raise) /\ UNCHANGED comments
                      ELSE /\ comments' = got.value
                           /\ pc' = IF options.dry_run THEN "dry_run" ELSE "push_issue"
                           /\ UNCHANGED exc
    /\ UNCHANGED <<options, bb, github, stdout, milestones, components, issues,
                   start_id, gi_issues, queue, issue, labels_todo, new_issue,
                   comments_todo>>
    /\ UNCHANGED fmtVars

Printed(what, id, n) == [what |-> what, id |-> id, n |-> n]

\* the dry-run branch of the loop body
dry_run_print ==
    /\ pc = "dry_run"
    /\ LET body == format_body(options, issue)
           title == Printed("Title", issue["local_id"], 0)
       IN  IF body.raise # None
           THEN /\ stdout' = Append(stdout, title)
                /\ AbortLocal(body.raise)
           ELSE /\ stdout' = stdout \o <<title, Printed("Body", issue["local_id"], 0),
                                        Printed("Comments", issue["local_id"], Len(comments))>>
                /\ pc' = "for_issue"
                /\ UNCHANGED exc
    /\ UNCHANGED <<options, bb, calls, github, milestones, components, issues,
                   start_id, gi_issues, queue, issue, comments, labels_todo,
                   new_issue, comments_todo>>
    /\ UNCHANGED fmtVars

\* format_body, then push_issue up to the creation of the issue
push_create ==
    /\ pc = "push_issue"
    /\ LET body == format_body(options, issue)
       IN  IF body.raise # None
           THEN AbortLocal(body.raise) /\ UNCHANGED <<calls, github, new_issue>>
           ELSE \E ok \in BOOLEAN :
                  LET call == Call("gh", "create_issue", issue["local_id"], 0, "", 0, ok)
                  IN  IF ok
                      THEN /\ calls' = Append(calls, call)
                           /\ github' = [github EXCEPT !.issues =
                                 Append(@, [local_id |-> issue["local_id"],
                                            title |-> issue["title"],
                                            body |-> body.value,
                                            state |-> "open",
                                            labels |-> <<>>,
                                            comments |-> <<>>])]
                           /\ new_issue' = Len(github.issues) + 1
                           /\ pc' = "push_status"
                           /\ UNCHANGED exc
                      ELSE Abort(call, "HTTPError") /\ UNCHANGED <<github, new_issue>>
    /\ UNCHANGED <<options, bb, stdout, milestones, components, issues, start_id,
                   gi_issues, queue, issue, comments, labels_todo, comments_todo>>
    /\ UNCHANGED fmtVars

\* the if/elif chain on the status
push_status ==
    /\ pc = "push_status"
    /\ IF ShouldClose(Get(issue, "status"))
       THEN \E ok \in BOOLEAN :
              LET call == Call("gh", "update_issue", issue["local_id"], new_issue, "", 0, ok)
              IN  IF ok
                  THEN /\ calls' = Append(calls, call)
                       /\ github' = [github EXCEPT !.issues[new_issue].state = "closed"]
                       /\ pc' = "push_labels"
                       /\ UNCHANGED exc
                  ELSE Abort(call, "HTTPError") /\ UNCHANGED github
       ELSE /\ pc' = "push_labels"
            /\ UNCHANGED <<calls, github, exc>>
    /\ UNCHANGED <<options, bb, stdout, milestones, components, issues, start_id,
                   gi_issues, queue, issue, comments, labels_todo, new_issue,
                   comments_todo>>
    /\ UNCHANGED fmtVars

push_labels ==
    /\ pc = "push_labels"
    /\ \E ok \in BOOLEAN :
          LET call == Call("gh", "add_labels", issue["local_id"], new_issue, "", 0, ok)
          IN  IF ok
              THEN /\ calls' = Append(calls, call)
                   /\ github' = [github EXCEPT !.issues[new_issue].labels = IssueLabels(issue)]
                   /\ comments_todo' = comments
                   /\ pc' = "push_comments"
                   /\ UNCHANGED exc
              ELSE Abort(call, "HTTPError") /\ UNCHANGED <<github, comments_todo>>
    /\ UNCHANGED <<options, bb, stdout, milestones, components, issues, start_id,
                   gi_issues, queue, issue, comments, labels_todo, new_issue>>
    /\ UNCHANGED fmtVars

\* one iteration of the for loop over the comments
push_comment ==
    /\ pc = "push_comments"
    /\ comments_todo # <<>>
    /\ LET comment == Head(comments_todo)
           text == format_comment(comment)
       IN  IF text.raise # None
           THEN AbortLocal(text.raise) /\ UNCHANGED <<calls, github, comments_todo>>
           ELSE \E ok \in BOOLEAN :
                  LET call == Call("gh", "create_comment", issue["local_id"], new_issue, "",
                                   comment.number, ok)
                  IN  IF ok
                      THEN /\ calls' = Append(calls, call)
                           /\ github' = [github EXCEPT !.issues[new_issue].comments =
                                            Append(@, text.value)]
                           /\ comments_todo' = Tail(comments_todo)
                           /\ UNCHANGED <<pc, exc>>
                      ELSE Abort(call, "HTTPError") /\ UNCHANGED <<github, comments_todo>>
    /\ UNCHANGED <<options, bb, stdout, milestones, components, issues, start_id,
                   gi_issues, queue, issue, comments, labels_todo, new_issue>>
    /\ UNCHANGED fmtVars

\* the two prints that end the live branch of the loop body
push_return ==
    /\ pc = "push_comments"
    /\ comments_todo = <<>>
    /\ stdout' = stdout \o <<Printed("Created", issue["local_id"], Len(comments)),
                             Printed("Created issues", 0, Len(issues))>>
    /\ pc' = "for_issue"
    /\ UNCHANGED <<options, bb, calls, github, milestones, components, issues,
                   start_id, gi_issues, queue, issue, comments, labels_todo,
                   new_issue, comments_todo, exc>>
    /\ UNCHANGED fmtVars

Next ==
    \/ call_get_milestones
    \/ call_get_components
    \/ get_issues_page
    \/ create_label
    \/ setup_labels_return
    \/ for_issue
    \/ call_get_comments
    \/ dry_run_print
    \/ push_create
    \/ push_status
    \/ push_labels
    \/ push_comment
    \/ push_return

-----------------------------------------------------------------------------
(* Inputs of the run: the command line and what Bitbucket serves.          *)

MaxIssues == 2

MaxComments == 3

MaxPages == 3

RunOptions(starts) ==
    [bitbucket_accountname : {"acme"}, bitbucket_repo : {"widgets"},
     github_username : {"me"}, github_repo : {"me/widgets"},
     dry_run : BOOLEAN, start : starts, bitbucket_username : {FALSE}]

Named == [first_name |-> "ada", last_name |-> "lovelace", username |-> "ada"]

HandleOnly == [username |-> "ada"]

Nameless == [first_name |-> "", last_name |-> ""]

Handle == [first_name |-> "", last_name |-> "", username |-> "ada"]

IssueRec(id, status, meta, reporter) ==
    [local_id |-> id, title |-> "title", status |-> status,
     content |-> <<"t", "e", "x", "t">>, created_on |-> "2012-01-01 10:00:00",
     metadata |-> meta, reported_by |-> reporter]

Tagged == [milestone |-> "v1", component |-> "ui"]

Untagged == [milestone |-> None, component |-> None]

\* a comment as Bitbucket serves it, without its number
Raw(ts, content, author) == [utc_created_on |-> ts, content |-> content, author_info |-> author]

\* the comments of one issue in delivery order, numbered as delivered
RawComments(cs) ==
    [k \in 1..Len(cs) |-> [utc_created_on |-> cs[k].utc_created_on,
                           content |-> cs[k].content,
                           author_info |-> cs[k].author_info,
                           comment_id |-> k]]

RECURSIVE Sum(_)
Sum(ns) == IF ns = <<>> THEN 0 ELSE Head(ns) + Sum(Tail(ns))

\* the list cut into consecutive pages of the given sizes
PagesBySizes(list, sizes) ==
    [k \in 1..Len(sizes) |->
        SubSeq(list, Sum(SubSeq(sizes, 1, k - 1)) + 1, Sum(SubSeq(sizes, 1, k)))]

\* the ways to cut n issues into non-empty pages
Compositions(n) == {p \in BSeq(1..n, n) : Sum(p) = n}

\* the orders in which some of the issues 1..n can be served
Orders(n) == {s \in BSeq(1..n, n) : \A i, j \in 1..Len(s) : i # j => s[i] # s[j]}

Ids(order) == {order[k] : k \in 1..Len(order)}

Source(ms, cs, pages, cm) ==
    [milestones |-> ms, components |-> cs, pages |-> pages, served |-> 0, comments |-> cm]

LabelSets ==
    { << <<>>, <<>> >>,
      << <<[name |-> "v1"], [name |-> "v2"]>>, <<[name |-> "ui"]>> >> }

\* SpecRun: issues served in any order and paging, open or resolved, with no
\* comment or with two delivered latest first, one of them a status change
RunCommentLists ==
    { <<>>,
      <<Raw(<<1, 0>>, "second", Handle), Raw(<<0, 2>>, "", Named),
        Raw(<<0, 1>>, "first", Named)>> }

RunSources ==
    UNION { { Source(lab[1], lab[2],
                     PagesBySizes([k \in 1..Len(order) |->
                                      IssueRec(order[k], st[order[k]], Tagged, Named)], sizes),
                     [i \in Ids(order) |-> RawComments(cm[i])]) :
              lab \in LabelSets,
              sizes \in Compositions(Len(order)),
              st \in [Ids(order) -> {"open", "resolved"}],
              cm \in [Ids(order) -> RunCommentLists] } :
            order \in Orders(MaxIssues) }

Init == RunInit(RunOptions({0}), RunSources, "get_milestones")

Spec == Init /\ [][Next]_vars

\* SpecStatus: one or two issues of any status, tagged or not, reported by
\* anyone
Statuses == {"new", "open", "resolved", "wontfix", "on hold", "on-hold", "invalid", "duplicate"}

StatusCommentLists == { <<>>, <<Raw(<<0, 1>>, "first", Named), Raw(<<0, 2>>, "second", Named)>> }

StatusIssues == {IssueRec(1, st, m, r) : st \in Statuses, m \in {Tagged, Untagged},
                                         r \in {Named, HandleOnly}}

StatusSources ==
    { Source(<<[name |-> "v1"]>>, <<[name |-> "ui"]>>, <<first \o <<iss>>>>,
             [i \in {1, 2} |-> RawComments(cm)]) :
        iss \in StatusIssues,
        first \in {<<>>, <<IssueRec(2, "resolved", Tagged, Named)>>,
                   <<IssueRec(2, "wontfix", Untagged, Named)>>},
        cm \in StatusCommentLists }

InitStatus == RunInit(RunOptions({0}), StatusSources, "get_milestones")

SpecStatus == InitStatus /\ [][Next]_vars

\* SpecComments: one issue whose comments are any short list of the pool
CommentPool ==
    { Raw(<<0, 1>>, "first", Named),
      Raw(<<0, 2>>, "second", Handle),
      Raw(<<1, 0>>, "third", NoneDict),
      Raw(<<0, 2>>, "", Named),
      Raw(<<0, 1>>, None, Named),
      Raw(<<0, 2>>, "fourth", HandleOnly),
      Raw(<<1, 0>>, "fifth", Nameless) }

CommentSources ==
    { Source(<<>>, <<>>, <<first \o <<IssueRec(1, st, Tagged, Named)>>>>,
             [i \in {1, 2} |-> IF i = 1 THEN RawComments(cs)
                               ELSE RawComments(<<Raw(<<0, 1>>, "first", Named)>>)]) :
        st \in {"open", "resolved"},
        first \in {<<>>, <<IssueRec(2, "open", Tagged, Named)>>},
        cs \in BSeq(CommentPool, MaxComments) }

InitComments == RunInit(RunOptions({0}), CommentSources, "get_milestones")

SpecComments == InitComments /\ [][Next]_vars

\* SpecFetch: get_issues alone, against any script of page sizes
PageSizes == {0, 1, 2, 25}

StartIds == {0, 7}

FetchSources ==
    { Source(<<>>, <<>>,
             PagesBySizes([k \in 1..Sum(sizes) |-> IssueRec(k, "open", Tagged, Named)], sizes),
             <<>>) :
        sizes \in BSeq(PageSizes, MaxPages) }

InitFetch == RunInit(RunOptions(StartIds), FetchSources, "get_issues")

NextFetch == get_issues_page

SpecFetch == InitFetch /\ [][NextFetch]_vars

-----------------------------------------------------------------------------
(* Properties of the run.                                                  *)

CallsOf(ops) == SelectSeq(calls, LAMBDA c : c.op \in ops)

\* C1: in dry-run mode no write is issued against the target: no
\* create-label, create-issue, update-issue, attach-label or create-comment
\* call, whatever the milestones, components and issues.
C1_DryRunNoWrites ==
    options.dry_run => \A k \in 1..Len(calls) : calls[k].svc # "gh"

\* C2: whatever the order in which the pages delivered the issues, the
\* create-issue calls are issued in strictly ascending order of local_id.
C2_AscendingPublication ==
    LET created == CallsOf({"create_issue"})
    IN  \A i, j \in 1..Len(created) : i < j => created[i].id < created[j].id

C2_Witness ==
    /\ pc = "done"
    /\ Len(issues) >= 2
    /\ issues[1]["local_id"] > issues[2]["local_id"]
    /\ Len(CallsOf({"create_issue"})) >= 2

\* the create-comment calls issued for the issue with this local_id
CommentCalls(id) ==
    SelectSeq(calls, LAMBDA c : c.op = "create_comment" /\ c.id = id)

\* a source comment with a body: neither absent nor empty
HasBody(c) == c["content"] # None /\ c["content"] # ""

\* a timestamp as a number
TsValue(t) == 10 * t[1] + t[2]

\* the script reported the issue as created
Published(id) == \E k \in 1..Len(stdout) : stdout[k].what = "Created" /\ stdout[k].id = id

\* C3: for every published issue the create-comment calls are exactly the
\* source comments of the issue that have a body, each once, in
\* non-decreasing order of creation timestamp, whatever the delivery order;
\* while an issue is being published they are such comments, in that order.
C3_CommentsChronological ==
    \A id \in DOMAIN bb.comments :
        LET src == bb.comments[id]
            cc == CommentCalls(id)
        IN  /\ \A k \in 1..Len(cc) : cc[k].cid \in 1..Len(src) /\ HasBody(src[cc[k].cid])
            /\ \A k, m \in 1..Len(cc) :
                  k < m => /\ cc[k].cid # cc[m].cid
                           /\ TsValue(src[cc[k].cid]["utc_created_on"])
                                 <= TsValue(src[cc[m].cid]["utc_created_on"])
            /\ Published(id) =>
                  {cc[k].cid : k \in 1..Len(cc)} = {c \in 1..Len(src) : HasBody(src[c])}
            /\ \A g \in 1..Len(github.issues) :
                  github.issues[g].local_id = id =>
                      \A k \in 1..Len(github.issues[g].comments) :
                          github.issues[g].comments[k].body = src[cc[k].cid]["content"]

C3_Witness ==
    /\ Published(1)
    /\ Len(CommentCalls(1)) >= 2
    /\ Len(bb.comments[1]) = 3
    /\ HasBody(bb.comments[1][1])
    /\ ~HasBody(bb.comments[1][2])
    /\ HasBody(bb.comments[1][3])
    /\ TsValue(bb.comments[1][1]["utc_created_on"]) > TsValue(bb.comments[1][3]["utc_created_on"])

IssueOps == {"create_issue", "update_issue", "add_labels", "create_comment"}

\* the target calls issued for the issue with this local_id
IssueCalls(id) == SelectSeq(calls, LAMBDA c : c.op \in IssueOps /\ c.id = id)

Rank(op) ==
    CASE op = "create_issue" -> 1
      [] op = "update_issue" -> 2
      [] op = "add_labels" -> 3
      [] op = "create_comment" -> 4

StatusOf(id) ==
    LET k == CHOOSE k \in 1..Len(issues) : issues[k]["local_id"] = id
    IN  issues[k]["status"]

Has(cs, op) == \E k \in 1..Len(cs) : cs[k].op = op

Ops(cs) == [k \in 1..Len(cs) |-> cs[k].op]

\* C4: the target calls of one issue come in the order create-issue, close,
\* attach-labels, create-comment...; the close call is issued if and only if
\* the status is "resolved"; no other status, wontfix, on-hold, invalid and
\* duplicate included, gives a close call or an error.
C4_CallOrderAndClose ==
    /\ \A k \in 1..Len(issues) :
          LET id == issues[k]["local_id"]
              ic == IssueCalls(id)
          IN  /\ \A i, j \in 1..Len(ic) :
                    i < j => /\ Rank(ic[i].op) <= Rank(ic[j].op)
                             /\ Rank(ic[i].op) = Rank(ic[j].op) => ic[i].op = "create_comment"
              /\ ic # <<>> => ic[1].op = "create_issue"
              /\ Has(ic, "update_issue") => StatusOf(id) = "resolved"
              /\ Has(ic, "add_labels") => (Has(ic, "update_issue") <=> StatusOf(id) = "resolved")
              /\ Has(ic, "create_comment") => Has(ic, "add_labels")
    /\ (calls # <<>> /\ calls[Len(calls)].op = "create_issue" /\ calls[Len(calls)].ok)
          => /\ pc \in {"push_status", "push_labels"}
             /\ exc = None
             /\ pc = "push_labels" => issue["status"] # "resolved"

C4_Witness ==
    /\ pc = "done"
    /\ Len(issues) = 2
    /\ StatusOf(1) = "on-hold"
    /\ StatusOf(2) = "resolved"
    /\ Ops(IssueCalls(1)) = <<"create_issue", "add_labels", "create_comment", "create_comment">>
    /\ Ops(IssueCalls(2)) = <<"create_issue", "update_issue", "add_labels",
                              "create_comment", "create_comment">>

\* the size of the j-th page the source serves
PageLen(j) == IF j <= Len(bb.pages) THEN Len(bb.pages[j]) ELSE 0

\* the number of non-empty pages before the first empty one
LeadingPages ==
    CHOOSE k \in 0..Len(bb.pages) :
        /\ \A j \in 1..k : PageLen(j) > 0
        /\ PageLen(k + 1) = 0

RECURSIVE Concat(_)
Concat(ps) == IF ps = <<>> THEN <<>> ELSE Head(ps) \o Concat(Tail(ps))

PageSizesServed == [j \in 1..Len(bb.pages) |-> Len(bb.pages[j])]

\* C5: get_issues started at offset s requests the offsets s, s+n1,
\* s+n1+n2, ..., stops at the first empty page and returns the pages
\* concatenated in request order, after exactly k+1 requests for k non-empty
\* pages; sizes [25,25,0] from offset 0 give 50 issues and 3 requests.
C5_Pagination ==
    LET reqs == CallsOf({"issues"})
    IN  /\ \A k \in 1..Len(reqs) :
              reqs[k].id = options.start + Sum([j \in 1..(k - 1) |-> PageLen(j)])
        /\ Len(reqs) <= LeadingPages + 1
        /\ pc = "setup_labels" =>
              /\ Len(reqs) = LeadingPages + 1
              /\ issues = Concat(SubSeq(bb.pages, 1, LeadingPages))
        /\ (pc = "setup_labels" /\ options.start = 0 /\ PageSizesServed = <<25, 25, 0>>)
              => Len(issues) = 50 /\ Len(reqs) = 3

C5_Witness ==
    /\ pc = "setup_labels"
    /\ options.start = 0
    /\ PageSizesServed = <<25, 25, 0>>
    /\ Len(issues) = 50
    /\ Len(calls) = 3

\* what is on the target stays there: labels, issues and comments are only
\* added, and an issue is never reopened
Remains(g, h) ==
    /\ Len(g.labels) <= Len(h.labels)
    /\ SubSeq(h.labels, 1, Len(g.labels)) = g.labels
    /\ Len(g.issues) <= Len(h.issues)
    /\ \A k \in 1..Len(g.issues) :
          /\ h.issues[k].local_id = g.issues[k].local_id
          /\ g.issues[k].state = "closed" => h.issues[k].state = "closed"
          /\ Len(g.issues[k].comments) <= Len(h.issues[k].comments)
          /\ SubSeq(h.issues[k].comments, 1, Len(g.issues[k].comments)) = g.issues[k].comments

\* a failed call is the last call of the run
FailedCallIsLast ==
    /\ \A k \in 1..(Len(calls) - 1) : calls[k].ok
    /\ (calls # <<>> /\ ~calls[Len(calls)].ok) => pc = "aborted"
    /\ (exc # None) <=> (pc = "aborted")
    /\ (pc = "aborted" /\ calls # <<>> /\ calls[Len(calls)].op = "issues") => issues = <<>>

\* C6: the run is fail-fast with no rollback: after a failed source or target
\* call no further call is made, a failed page fetch leaves no partial issue
\* list, and what was created on the target before the failure remains.
C6_FailFastNoRollback ==
    /\ []FailedCallIsLast
    /\ [][pc # "aborted" /\ Remains(github, github')]_vars

C6_Witness ==
    /\ pc = "aborted"
    /\ calls[Len(calls)].op = "create_comment"
    /\ ~calls[Len(calls)].ok
    /\ Len(github.labels) = 4
    /\ Len(github.issues) = 2
    /\ github.issues[1].state = "closed"
    /\ Len(github.issues[1].comments) = 2
    /\ Len(github.issues[2].comments) = 1

-----------------------------------------------------------------------------
(* Properties of clean_body (SpecClean).                                   *)

HasMarker(l) == Contains(l, OPEN) \/ Contains(l, CLOSE)

\* every marker of the body is a line of its own
StandaloneMarkers(src) == \A k \in 1..Len(src) : HasMarker(src[k]) => src[k] \in {OPEN, CLOSE}

\* line k lies between an open marker line and the next close marker line
InsideBlock(src, k) ==
    \E j \in 1..(k - 1) : src[j] = OPEN /\ \A m \in (j + 1)..(k - 1) : src[m] # CLOSE

\* what the block leaves of line k: indented inside, as it is outside
Translated(src, k) == IF InsideBlock(src, k) THEN INDENT \o src[k] ELSE src[k]

\* the output with no line for the marker lines
WithoutMarkerLines(src) ==
    LET tagged == [k \in 1..Len(src) |-> <<src[k] \in {OPEN, CLOSE}, Translated(src, k)>>]
        kept == SelectSeq(tagged, LAMBDA t : ~t[1])
    IN  [k \in 1..Len(kept) |-> kept[k][2]]

\* the output with an indent-only line for each marker line
WithIndentOnlyLines(src) ==
    [k \in 1..Len(src) |-> IF src[k] \in {OPEN, CLOSE} THEN INDENT ELSE Translated(src, k)]

\* C9 as stated: with standalone markers, the lines outside a block are
\* unchanged, the lines inside are indented by four spaces and the marker
\* lines give no output line ("before\n{{{\ncode\n}}}\nafter" gives
\* "before\n    code\nafter").
C9_NoLineForMarkers ==
    (pc = "returned" /\ StandaloneMarkers(cb_src))
        => result = JoinNL(WithoutMarkerLines(cb_src))

\* C9 amended: with standalone markers, the lines outside a block are
\* unchanged, the lines inside are indented by four spaces and each marker
\* line gives an output line of the four-space indent alone
\* ("before\n{{{\ncode\n}}}\nafter" gives "before\n    \n    code\n    \nafter").
C9_IndentOnlyLineForMarkers ==
    /\ (pc = "returned" /\ StandaloneMarkers(cb_src))
            => result = JoinNL(WithIndentOnlyLines(cb_src))
    /\ (pc = "returned" /\ arg = ExampleBody)
            => result = JoinNL(<< <<"b", "e", "f", "o", "r", "e">>,
                                  INDENT,
                                  INDENT \o <<"c", "o", "d", "e">>,
                                  INDENT,
                                  <<"a", "f", "t", "e", "r">> >>)

C9_Witness ==
    /\ pc = "returned"
    /\ arg = ExampleBody
    /\ Len(lines) = 5
    /\ lines[2] = INDENT

\* the last line the loop has handled
LastLine == cb_src[cb_i]

\* an open with no later line containing the close marker leaves every
\* remaining line indented; opens[k] says whether line k opens a block
RestIndented(opens) ==
    pc = "returned" =>
        \A k \in 1..Len(cb_src) :
            (opens[k] /\ \A j \in (k + 1)..Len(cb_src) : ~Contains(cb_src[j], CLOSE))
                => \A m \in 0..(Len(cb_src) - k) :
                       /\ Len(lines) - m >= 1
                       /\ StartsWith(lines[Len(lines) - m], INDENT)

OpensAnywhere(l) == Contains(l, OPEN) /\ ~Contains(l, CLOSE)

OpensAtStart(l) == (StartsWith(l, OPEN) \/ StartsWith(l, CLOSE)) /\ OpensAnywhere(l)

\* C10 as stated: a line containing a marker anywhere is a delimiter: after a
\* line that contains }}} the flag is false, after a line that contains {{{
\* and no }}} it is true, and an open with no later }}} indents the rest.
C10_MarkerAnywhere ==
    /\ cb_i > 0 => /\ Contains(LastLine, CLOSE) => ~in_block
                   /\ OpensAnywhere(LastLine) => in_block
    /\ RestIndented([k \in 1..Len(cb_src) |-> OpensAnywhere(cb_src[k])])

\* the flag after i lines, read off the last of them that starts with a marker
FlagAfter(src, i) ==
    LET delims == {j \in 1..i : StartsWith(src[j], OPEN) \/ StartsWith(src[j], CLOSE)}
    IN  IF delims = {} THEN FALSE
        ELSE LET last == CHOOSE j \in delims : \A m \in delims : m <= j
             IN  ~Contains(src[last], CLOSE)

\* C10 amended: only a line that starts with {{{ or }}} is a delimiter: after
\* such a line the flag is false if the line contains }}} and true if it
\* contains {{{ and no }}}; a marker elsewhere in a line leaves the flag as it
\* was; and an open with no later line containing }}} indents the rest.
C10_MarkerAtStart ==
    /\ cb_i > 0 =>
          /\ ((StartsWith(LastLine, OPEN) \/ StartsWith(LastLine, CLOSE))
                 /\ Contains(LastLine, CLOSE)) => ~in_block
          /\ OpensAtStart(LastLine) => in_block
    /\ pc \in {"clean_body", "returned"} => in_block = FlagAfter(cb_src, cb_i)
    /\ RestIndented([k \in 1..Len(cb_src) |-> OpensAtStart(cb_src[k])])

C10_Witness ==
    /\ pc = "clean_body"
    /\ cb_i > 1
    /\ Contains(LastLine, CLOSE)
    /\ ~StartsWith(LastLine, CLOSE)
    /\ ~StartsWith(LastLine, OPEN)
    /\ in_block

-----------------------------------------------------------------------------
(* Properties of the formatters (SpecFormat).                              *)

\* C7: the source URL of the provenance footer is built from the account
\* name (first positional argument), the repository name and the issue
\* identifier, whatever the value of -u/--bitbucket-username.
C7_UrlFromAccountName ==
    (pc = "format_body_returned" /\ result.raise = None)
        => result.value.bitbucket =
              <<"https://bitbucket.org/", options.bitbucket_accountname, "/",
                options.bitbucket_repo, "/issue/", ToString(arg["local_id"])>>

HasNames(a) ==
    /\ {"first_name", "last_name"} \subseteq DOMAIN a
    /\ a["first_name"] # ""
    /\ a["last_name"] # ""

\* C8: format_user returns "Anonymous" for an absent author, "first last"
\* when both names are present and non-empty, and otherwise, for a record
\* that carries a handle (a handle-only record included), the markdown link
\* to the profile, without raising.
C8_FormatUser ==
    pc = "format_user_returned" =>
        /\ arg = NoneDict => result = Return(<<"Anonymous">>)
        /\ (arg # NoneDict /\ HasNames(arg))
              => result = Return(<<arg["first_name"], " ", arg["last_name"]>>)
        /\ (arg # NoneDict /\ ~HasNames(arg) /\ "username" \in DOMAIN arg)
              => result = Return(<<"[", arg["username"], "](http://bitbucket.org/",
                                   arg["username"], ")">>)

====
